---- MODULE Spec2Model ----
(***************************************************************************)
(* Model of the domain handling of ServerlessImagingAWS:                   *)
(*   - CloudExtras.py: restrict_model_to_receiver_grid, extent_gradient    *)
(*   - PyModel.py:     initialize_damp, initialize_function, Model         *)
(*                                                                         *)
(* Physical quantities are exact integers in a fixed unit (coordinates,    *)
(* spacings and buffers in length units, velocities in velocity units), so *)
(* every division of the source is modelled by the integer operation that  *)
(* the source applies to its quotient (int() truncation, round()).         *)
(* Arrays are records [shape, data]; data maps the 0-based index tuples of *)
(* the shape to values.  Tuples (shape, origin, spacing) are 1-based       *)
(* sequences: Python's origin[0] is origin[1] here.                        *)
(***************************************************************************)
EXTENDS Integers, Sequences, FiniteSets, TLC

VARIABLES apPc, args, sub, eargs, g,
          mdPc, model, ret,
          dpPc, dargs, damp

vars == <<apPc, args, sub, eargs, g, mdPc, model, ret, dpPc, dargs, damp>>

apVars == <<apPc, args, sub, eargs, g>>
mdVars == <<mdPc, model, ret>>
dpVars == <<dpPc, dargs, damp>>

(***************************************************************************)
(* Bounds of the model.                                                    *)
(***************************************************************************)
MaxNx == 4
MaxBuffer == 2

(***************************************************************************)
(* Scalar helpers.                                                         *)
(***************************************************************************)
Max(a, b) == IF a >= b THEN a ELSE b
Min(a, b) == IF a <= b THEN a ELSE b
Abs(a) == IF a < 0 THEN -a ELSE a

SetMin(S) == CHOOSE x \in S : \A y \in S : x <= y
SetMax(S) == CHOOSE x \in S : \A y \in S : x >= y

\* Python int(a / b) for b > 0: the quotient truncated toward zero.
PyInt(a, b) == IF a >= 0 THEN a \div b ELSE -((-a) \div b)

\* Python round(a / b) for b > 0: nearest integer, ties to the even one.
PyRound(a, b) ==
    LET q == a \div b
        r == a % b
    IN  IF 2 * r < b THEN q
        ELSE IF 2 * r > b THEN q + 1
        ELSE IF q % 2 = 0 THEN q ELSE q + 1

(***************************************************************************)
(* numpy arrays of rank 2 and 3.                                           *)
(***************************************************************************)
Indices(shape) ==
    IF Len(shape) = 2
    THEN {<<i, k>> : i \in 0..(shape[1] - 1), k \in 0..(shape[2] - 1)}
    ELSE {<<i, j, k>> : i \in 0..(shape[1] - 1), j \in 0..(shape[2] - 1),
                        k \in 0..(shape[3] - 1)}

\* np.zeros(shape): ValueError on a negative dimension.
ZerosOk(shape) == \A a \in 1..Len(shape) : shape[a] >= 0
Zeros(shape) == [shape |-> shape, data |-> [idx \in Indices(shape) |-> 0]]

\* idx with component a replaced by v
Shift(idx, a, v) == [idx EXCEPT ![a] = v]

\* np.concatenate((x, y), axis): every other dimension must agree.
ConcatOk(x, y, axis) ==
    /\ Len(x.shape) = Len(y.shape)
    /\ \A a \in 1..Len(x.shape) : a # axis => x.shape[a] = y.shape[a]

Concat(x, y, axis) ==
    LET shape == [x.shape EXCEPT ![axis] = x.shape[axis] + y.shape[axis]]
    IN  [shape |-> shape,
         data  |-> [idx \in Indices(shape) |->
                      IF idx[axis] < x.shape[axis]
                      THEN x.data[idx]
                      ELSE y.data[Shift(idx, axis, idx[axis] - x.shape[axis])]]]

\* Python slice bounds: a negative bound counts from the end, then both
\* bounds are clamped to [0, n].
SliceBound(i, n) == IF i < 0 THEN Max(i + n, 0) ELSE Min(i, n)
SliceLenUnclamped(start, stop, n) == SliceBound(stop, n) - SliceBound(start, n)

SliceLen(start, stop, n) == Max(SliceBound(stop, n) - SliceBound(start, n), 0)

\* x[start:stop] along one axis, every other axis whole
SliceAxis(x, axis, start, stop) ==
    LET n     == x.shape[axis]
        s     == SliceBound(start, n)
        shape == [x.shape EXCEPT ![axis] = SliceLen(start, stop, n)]
    IN  [shape |-> shape,
         data  |-> [idx \in Indices(shape) |->
                      x.data[Shift(idx, axis, idx[axis] + s)]]]

\* x with w points dropped on both sides of every axis
SliceAxisAll(x, w) ==
    LET shape == [a \in 1..Len(x.shape) |-> Max(x.shape[a] - 2 * w, 0)]
    IN  [shape |-> shape,
         data  |-> [idx \in Indices(shape) |->
                      x.data[[a \in 1..Len(shape) |-> idx[a] + w]]]]

(***************************************************************************)
(* CloudExtras.restrict_model_to_receiver_grid                             *)
(*   a = [sx, gx, sy, gy, m, spacing, origin, buffer_size]; sy = gy = {}   *)
(*   stands for the default None.  The result carries the returned triple  *)
(*   (m, shape, origin) and the locals the bounds are computed in.         *)
(***************************************************************************)
NoCoords == {}

domain_size(shape, spacing) ==
    [a \in 1..Len(shape) |-> (shape[a] - 1) * spacing[a]]

\* lines 292-296: minimum/maximum source/receiver coordinate
ScanMin(s, r) == Min(SetMin(s), SetMin(r))
ScanMax(s, r) == Max(SetMax(s), SetMax(r))

\* the buffer zone added without clipping
ClipLowerUnclipped(origin_a, lo, buffer_size) == lo - buffer_size

\* lines 299-300, 304-305: add the buffer zone, clipped to the domain
ClipLower(origin_a, lo, buffer_size) == Max(origin_a, lo - buffer_size)
ClipUpper(origin_a, size_a, hi, buffer_size) ==
    Min(origin_a + size_a, hi + buffer_size)

RestrictFailed(e) ==
    [err |-> e, m |-> Zeros(<<0, 0>>), shape |-> <<0, 0>>, origin |-> <<0, 0>>,
     min_x |-> 0, max_x |-> 0, nx_min |-> 0, nx_max |-> 0,
     min_y |-> 0, max_y |-> 0, ny_min |-> 0, ny_max |-> 0]

restrict_model_to_receiver_grid(a) ==
    LET shape  == a.m.shape
        ndim   == Len(shape)
        size   == domain_size(shape, a.spacing)
        hasY   == a.sy # NoCoords /\ a.gy # NoCoords
        min_x  == ClipLower(a.origin[1], ScanMin(a.sx, a.gx), a.buffer_size)
        max_x  == ClipUpper(a.origin[1], size[1], ScanMax(a.sx, a.gx),
                            a.buffer_size)
        min_y  == ClipLower(a.origin[2], ScanMin(a.sy, a.gy), a.buffer_size)
        max_y  == ClipUpper(a.origin[2], size[2], ScanMax(a.sy, a.gy),
                            a.buffer_size)
        nx_min == PyInt(min_x, a.spacing[1])
        nx_max == PyInt(max_x, a.spacing[1])
        ny_min == PyInt(min_y, a.spacing[2])
        ny_max == PyInt(max_y, a.spacing[2])
        ox     == nx_min * a.spacing[1]
        oy     == ny_min * a.spacing[2]
        oz     == a.origin[ndim]
        mx     == SliceAxis(a.m, 1, nx_min, nx_max + 1)
        mxy    == SliceAxis(mx, 2, ny_min, ny_max + 1)
    IN  IF ndim = 2
        THEN [err |-> "none", m |-> mx, shape |-> mx.shape,
              origin |-> <<ox, oz>>,
              min_x |-> min_x, max_x |-> max_x,
              nx_min |-> nx_min, nx_max |-> nx_max,
              min_y |-> 0, max_y |-> 0, ny_min |-> 0, ny_max |-> 0]
        ELSE IF ~hasY
        THEN \* min_y is read at line 304 without having been assigned
             RestrictFailed("UnboundLocalError")
        ELSE [err |-> "none", m |-> mxy, shape |-> mxy.shape,
              origin |-> <<ox, oy, oz>>,
              min_x |-> min_x, max_x |-> max_x,
              nx_min |-> nx_min, nx_max |-> nx_max,
              min_y |-> min_y, max_y |-> max_y,
              ny_min |-> ny_min, ny_max |-> ny_max]

(***************************************************************************)
(* CloudExtras.extent_gradient                                             *)
(*   e = [shape_full, origin_full, shape_sub, origin_sub, spacing, g]      *)
(***************************************************************************)
LeftOffset(origin_sub_a, origin_full_a, spacing_a) ==
    PyInt(origin_sub_a - origin_full_a, spacing_a)

\* the right offset computed without the left one
RightOffsetNoLeft(full_a, sub_a, left) == full_a - sub_a

RightOffset(full_a, sub_a, left) == full_a - sub_a - left

ExtentFailed(e) == [err |-> e, g |-> Zeros(<<0, 0>>)]

extent_gradient(e) ==
    LET ndim     == Len(e.shape_full)
        nz       == e.shape_full[ndim]
        nx_left  == LeftOffset(e.origin_sub[1], e.origin_full[1], e.spacing[1])
        nx_right == RightOffset(e.shape_full[1], e.shape_sub[1], nx_left)
        ny_left  == LeftOffset(e.origin_sub[2], e.origin_full[2], e.spacing[2])
        ny_right == RightOffset(e.shape_full[2], e.shape_sub[2], ny_left)
        b1shape  == IF ndim = 2 THEN <<nx_left, nz>>
                    ELSE <<nx_left, e.shape_sub[2], nz>>
        b2shape  == IF ndim = 2 THEN <<nx_right, nz>>
                    ELSE <<nx_right, e.shape_sub[2], nz>>
        gx       == Concat(Concat(Zeros(b1shape), e.g, 1), Zeros(b2shape), 1)
        b3shape  == <<e.shape_full[1], ny_left, nz>>
        b4shape  == <<e.shape_full[1], ny_right, nz>>
        gxy      == Concat(Concat(Zeros(b3shape), gx, 2), Zeros(b4shape), 2)
    IN  IF ~(ZerosOk(b1shape) /\ ZerosOk(b2shape))
        THEN ExtentFailed("ValueError")          \* negative dimension
        ELSE IF ~ConcatOk(Zeros(b1shape), e.g, 1)
        THEN ExtentFailed("ValueError")          \* dimensions do not match
        ELSE IF ndim = 2
        THEN [err |-> "none", g |-> gx]
        ELSE IF ~(ZerosOk(b3shape) /\ ZerosOk(b4shape))
        THEN ExtentFailed("ValueError")
        ELSE IF ~ConcatOk(Zeros(b3shape), gx, 2)
        THEN ExtentFailed("ValueError")
        ELSE [err |-> "none", g |-> gxy]

(***************************************************************************)
(* Inputs of the aperture operations.                                      *)
(***************************************************************************)
\* row-major position of idx in an array of the given shape
Lin(idx, shape) ==
    IF Len(shape) = 2
    THEN idx[1] * shape[2] + idx[2]
    ELSE (idx[1] * shape[2] + idx[2]) * shape[3] + idx[3]

\* an array whose entries are pairwise different and non-zero
Ramp(shape, base) ==
    [shape |-> shape, data |-> [idx \in Indices(shape) |-> base + Lin(idx, shape)]]

SpacingVals == {1, 2, 3}
OriginVals  == {-2, 0, 3}
SrcSets     == {{0}, {4}}
RecSets     == {{-2}, {0}, {1}, {5}, {7}, {0, 1}, {0, 5}, {1, 7}, {-2, 5}, {5, 7}}
YSets       == {NoCoords, {0}, {1, 4}}

Shapes2 == {<<nx, 2>> : nx \in 1..MaxNx}
Shapes3 == {<<nx, 3, 1>> : nx \in 2..MaxNx}

RestrictArgs2 ==
    {[sx |-> s, gx |-> r, sy |-> NoCoords, gy |-> NoCoords,
      m |-> Ramp(sh, 1), spacing |-> <<h, h>>, origin |-> <<o, 0>>,
      buffer_size |-> b] :
        s \in SrcSets, r \in RecSets, sh \in Shapes2, h \in SpacingVals,
        o \in OriginVals, b \in 0..MaxBuffer}

RestrictArgs3 ==
    {[sx |-> s, gx |-> {1, 7}, sy |-> y, gy |-> y,
      m |-> Ramp(sh, 1), spacing |-> <<h, 2, 1>>, origin |-> <<o, oy, 5>>,
      buffer_size |-> b] :
        s \in SrcSets, y \in YSets, sh \in Shapes3, h \in {1, 3},
        o \in {0, 3}, oy \in {0, 2}, b \in {0, MaxBuffer}}

ExtentArgs2 ==
    {[shape_full |-> <<nf, 2>>, origin_full |-> <<o, 0>>,
      shape_sub |-> <<ns, 2>>, origin_sub |-> <<o + d, 0>>,
      spacing |-> <<h, h>>, g |-> Ramp(<<ns, 2>>, 1)] :
        nf \in 1..MaxNx, ns \in 0..MaxNx, o \in OriginVals,
        d \in -1..(2 * MaxNx), h \in SpacingVals}

ExtentArgs3 ==
    {[shape_full |-> <<nf, 3, 1>>, origin_full |-> <<o, 2, 5>>,
      shape_sub |-> <<ns, nsy, 1>>, origin_sub |-> <<o + d, 2 + dy, 5>>,
      spacing |-> <<h, 2, 1>>, g |-> Ramp(<<ns, nsy, 1>>, 1)] :
        nf \in 2..MaxNx, ns \in 1..2, nsy \in 1..3, o \in {0, 3},
        d \in 0..5, dy \in 0..5, h \in {1, 3}}

\* source at x = 0, receivers at x in {0, 100, 500}, buffer 50, domain [0, 1000]
ExampleArgs ==
    [sx |-> {0}, gx |-> {0, 100, 500}, sy |-> NoCoords, gy |-> NoCoords,
     m |-> Ramp(<<101, 2>>, 1), spacing |-> <<10, 10>>, origin |-> <<0, 0>>,
     buffer_size |-> 50]

NoArgs   == [sx |-> {0}, gx |-> {0}, sy |-> NoCoords, gy |-> NoCoords,
             m |-> Zeros(<<0, 0>>), spacing |-> <<1, 1>>, origin |-> <<0, 0>>,
             buffer_size |-> 0]
NoEArgs  == [shape_full |-> <<0, 0>>, origin_full |-> <<0, 0>>,
             shape_sub |-> <<0, 0>>, origin_sub |-> <<0, 0>>,
             spacing |-> <<1, 1>>, g |-> Zeros(<<0, 0>>)]
NoSub    == RestrictFailed("unset")
NoG      == ExtentFailed("unset")

(***************************************************************************)
(* Aperture operations as actions.                                         *)
(*   apPc = "args"       a call of restrict_model_to_receiver_grid is due  *)
(*          "restricted" it has returned (or raised) into sub              *)
(*          "extended"   extent_gradient was applied to what it returned   *)
(*          "eargs"      a direct call of extent_gradient is due           *)
(*          "embedded"   it has returned (or raised) into g                *)
(***************************************************************************)
Restrict ==
    /\ apPc = "args"
    /\ sub' = restrict_model_to_receiver_grid(args)
    /\ apPc' = "restricted"
    /\ UNCHANGED <<args, eargs, g, mdVars, dpVars>>

\* the worker embeds what restrict returned back into the full domain
RoundTrip ==
    /\ apPc = "restricted"
    /\ sub.err = "none"
    /\ eargs' = [shape_full |-> args.m.shape, origin_full |-> args.origin,
                 shape_sub |-> sub.shape, origin_sub |-> sub.origin,
                 spacing |-> args.spacing, g |-> sub.m]
    /\ g' = extent_gradient(eargs')
    /\ apPc' = "extended"
    /\ UNCHANGED <<args, sub, mdVars, dpVars>>

Embed ==
    /\ apPc = "eargs"
    /\ g' = extent_gradient(eargs)
    /\ apPc' = "embedded"
    /\ UNCHANGED <<args, sub, eargs, mdVars, dpVars>>

(***************************************************************************)
(* Fixed-point reals.  Field values (damping, slowness) are integers in    *)
(* units of 1/FpOne; FpOne is the value 1.0 that np.ones() fills the mask  *)
(* with.  Quotients are truncated toward zero.                             *)
(***************************************************************************)
FpOne == 10000
Pi == 31416
TwoPi == 2 * Pi
HalfPi == Pi \div 2

\* a / b truncated toward zero, b > 0
FpDiv(a, b) == IF a >= 0 THEN a \div b ELSE -((-a) \div b)

\* sin(y) for 0 <= y <= HalfPi: the Taylor polynomial of degree 9 (Horner)
SinQuadrant(y) ==
    LET y2 == (y * y) \div FpOne
        t4 == FpOne - (y2 \div 72)
        t3 == FpOne - ((y2 * t4) \div (42 * FpOne))
        t2 == FpOne - ((y2 * t3) \div (20 * FpOne))
        t1 == FpOne - ((y2 * t2) \div (6 * FpOne))
    IN  (y * t1) \div FpOne

\* np.sin(x) for 0 <= x < TwoPi
Sin(x) ==
    IF x <= HalfPi THEN SinQuadrant(x)
    ELSE IF x <= Pi THEN SinQuadrant(Pi - x)
    ELSE IF x <= Pi + HalfPi THEN -SinQuadrant(x - Pi)
    ELSE -SinQuadrant(TwoPi - x)

(***************************************************************************)
(* PyModel.initialize_damp and PyModel.initialize_function                 *)
(***************************************************************************)
\* line 38: 1.5 * np.log(1.0 / 0.001) / 40. = 0.25904...
dampcoeff == 2590

\* the layers counted from the edge inward
DampLayerInward(nbpml, j) == Abs(j + 1)

\* line 45: pos = |(nbpml - j + 1) / nbpml| = DampLayer / nbpml
DampLayer(nbpml, j) == Abs(nbpml - j + 1)

\* pos in units of 1/FpOne
DampPos(nbpml, j) == (FpOne * DampLayer(nbpml, j)) \div nbpml

\* sin(2*pi*pos): the angle reduced to 2*pi*(DampLayer mod nbpml)/nbpml
DampSin(nbpml, j) == Sin((TwoPi * (DampLayer(nbpml, j) % nbpml)) \div nbpml)

\* lines 46-48: the value of layer j
DampVal(nbpml, j, mask) ==
    LET pos == DampPos(nbpml, j)
        val == (dampcoeff * (pos - (FpOne * DampSin(nbpml, j)) \div TwoPi))
                 \div FpOne
    IN  IF mask THEN -val ELSE val

\* padding with zeros instead of the edge values
PadEdgeZeros(x, widths) ==
    LET shape == [a \in 1..Len(x.shape) |->
                    x.shape[a] + widths[a][1] + widths[a][2]]
        src(idx) == [a \in 1..Len(x.shape) |-> idx[a] - widths[a][1]]
    IN  [shape |-> shape,
         data  |-> [idx \in Indices(shape) |->
                      IF src(idx) \in Indices(x.shape)
                      THEN x.data[src(idx)] ELSE 0]]

\* np.pad(x, widths, 'edge'): widths[a] = <<left, right>>
PadEdge(x, widths) ==
    LET shape == [a \in 1..Len(x.shape) |->
                    x.shape[a] + widths[a][1] + widths[a][2]]
        src(idx) == [a \in 1..Len(x.shape) |->
                       Max(0, Min(x.shape[a] - 1, idx[a] - widths[a][1]))]
    IN  [shape |-> shape, data |-> [idx \in Indices(shape) |-> x.data[src(idx)]]]

Full(shape, v) == [shape |-> shape, data |-> [idx \in Indices(shape) |-> v]]

\* line 52: the left slice of layer j is slice(j, j+1)
LeftSlice(n, j) == SliceBound(j, n)..(SliceBound(j + 1, n) - 1)
\* line 55: the right slice of layer j is slice(n-j, n-j+1)
RightSlice(n, j) == SliceBound(n - j, n)..(SliceBound(n - j + 1, n) - 1)

RECURSIVE LayerSum(_, _, _, _, _, _)
\* what the layers j..nbpml-1 of one axis add at position p of that axis
LayerSum(n, p, nbpml, spacing_a, mask, j) ==
    IF j >= nbpml THEN 0
    ELSE LET v == FpDiv(DampVal(nbpml, j, mask), spacing_a)
         IN  (IF p \in LeftSlice(n, j) THEN v ELSE 0)
             + (IF p \in RightSlice(n, j) THEN v ELSE 0)
             + LayerSum(n, p, nbpml, spacing_a, mask, j + 1)

\* lines 32-56: the array `data` when the loops are over
DampData(phy_shape, nbpml, spacing, mask) ==
    LET ndim   == Len(phy_shape)
        data0  == PadEdge(Full(phy_shape, IF mask THEN FpOne ELSE 0),
                          [a \in 1..ndim |-> <<nbpml, nbpml>>])
        RECURSIVE AxisSum(_, _)
        AxisSum(idx, a) ==
            IF a > ndim THEN 0
            ELSE LayerSum(data0.shape[a], idx[a], nbpml, spacing[a], mask, 0)
                 + AxisSum(idx, a + 1)
    IN  [shape |-> data0.shape,
         data  |-> [idx \in Indices(data0.shape) |->
                      data0.data[idx] + AxisSum(idx, 1)]]

\* a devito Function: its halo is space_order points on each side
size_halo(f) == [a \in 1..Len(f.grid_shape) |-> <<f.space_order, f.space_order>>]

\* lines 71-73: function.data_with_halo[:] = pad(data); the assignment
\* broadcasts, so the padded shape has to be that of data_with_halo
HaloShape(f) == [a \in 1..Len(f.grid_shape) |-> f.grid_shape[a] + 2 * f.space_order]

initialize_function(f, data, nbpml) ==
    PadEdge(data, [a \in 1..Len(data.shape) |->
                     <<nbpml + size_halo(f)[a][1], nbpml + size_halo(f)[a][2]>>])

\* lines 22-58
initialize_damp(f, phy_shape, nbpml, spacing, mask) ==
    initialize_function(f, DampData(phy_shape, nbpml, spacing, mask), 0)

(***************************************************************************)
(* Damping as an operation of its own: initialize_damp on a fresh Function *)
(***************************************************************************)
MaxDampNbpml == 5

DampArgs ==
    {[phy_shape |-> sh, nbpml |-> n, spacing |-> sp, mask |-> mk,
      space_order |-> so] :
        sh \in {<<1, 1>>, <<2, 1>>}, n \in 0..MaxDampNbpml,
        sp \in {<<1, 1>>, <<2, 3>>}, mk \in BOOLEAN, so \in {0, 1}}
    \cup
    {[phy_shape |-> <<1, 1, 1>>, nbpml |-> n, spacing |-> <<1, 2, 1>>,
      mask |-> mk, space_order |-> 1] : n \in 0..2, mk \in BOOLEAN}

NoDArgs == [phy_shape |-> <<0, 0>>, nbpml |-> 0, spacing |-> <<1, 1>>,
            mask |-> FALSE, space_order |-> 0]
NoDamp  == Zeros(<<0, 0>>)

\* the Function(name="damp", grid=grid, space_order=so) of an extended grid
NewFunction(grid_shape, so) == [grid_shape |-> grid_shape, space_order |-> so]

InitializeDamp ==
    /\ dpPc = "args"
    /\ damp' = initialize_damp(
                 NewFunction([a \in 1..Len(dargs.phy_shape) |->
                                dargs.phy_shape[a] + 2 * dargs.nbpml],
                             dargs.space_order),
                 dargs.phy_shape, dargs.nbpml, dargs.spacing, dargs.mask)
    /\ dpPc' = "done"
    /\ UNCHANGED <<dargs, apVars, mdVars>>

(***************************************************************************)
(* PyModel.Model                                                           *)
(*   A parameter is None, a scalar or an ndarray of the interior shape.    *)
(*   A field of the Model is a plain scalar or a devito Function whose     *)
(*   data_with_halo covers the extended grid plus the halo.                *)
(*   Velocities are integers in velocity units, the slowness 1/vp^2 is in  *)
(*   units of 1/FpOne; epsilon and delta are given in halves, so that      *)
(*   1 + 2*epsilon is the integer 1 + epsilon.                             *)
(***************************************************************************)
MaxNbpml == 2

None       == [kind |-> "None", value |-> 0, arr |-> Zeros(<<0, 0>>)]
Scalar(v)  == [kind |-> "scalar", value |-> v, arr |-> Zeros(<<0, 0>>)]
NdArray(x) == [kind |-> "ndarray", value |-> 0, arr |-> x]

PlainField(v) ==
    [kind |-> "scalar", value |-> v, grid_shape |-> <<0, 0>>,
     space_order |-> 0, data_with_halo |-> Zeros(<<0, 0>>)]
FunctionField(grid_shape, so, data) ==
    [kind |-> "Function", value |-> 0, grid_shape |-> grid_shape,
     space_order |-> so, data_with_halo |-> data]

\* line 137: 1 + 2 * epsilon, elementwise
OnePlusTwice(x) ==
    [shape |-> x.shape, data |-> [idx \in Indices(x.shape) |-> 1 + x.data[idx]]]

ArrMax(x) == SetMax({x.data[idx] : idx \in Indices(x.shape)})
SeqMin(q) == SetMin({q[a] : a \in 1..Len(q)})

\* np.max(p) of a scalar or an ndarray
NpMax(p) == IF p.kind = "ndarray" THEN ArrMax(p.arr) ELSE p.value

\* np.sqrt on the perfect squares the inputs are drawn from
Sqrt(n) == CHOOSE k \in 0..n : k * k <= n /\ n < (k + 1) * (k + 1)

\* numpy 1 / (v * v): inf where v = 0
Infinity == FpOne * FpOne
Slowness(v) == IF v = 0 THEN Infinity ELSE FpOne \div (v * v)

\* line 255: 1 / (self.vp * self.vp), elementwise
SlownessArray(x) ==
    [shape |-> x.shape,
     data  |-> [idx \in Indices(x.shape) |-> Slowness(x.data[idx])]]

\* line 152: np.sqrt(1 + 2 * delta), elementwise
SqrtOnePlusTwice(x) ==
    [shape |-> x.shape,
     data  |-> [idx \in Indices(x.shape) |-> Sqrt(1 + x.data[idx])]]

\* devito Grid(extent, shape, origin): spacing = extent / (shape - 1)
Grid(extent, shape, origin) ==
    [shape |-> shape, origin |-> origin, extent |-> extent,
     spacing |-> [a \in 1..Len(shape) |-> extent[a] \div (shape[a] - 1)]]

\* the boundary layer added on one side only
shape_pml_one_side(shape, nbpml) == [a \in 1..Len(shape) |-> shape[a] + nbpml]

\* line 99: shape_pml = np.array(shape) + 2 * self.nbpml
shape_pml(shape, nbpml) == [a \in 1..Len(shape) |-> shape[a] + 2 * nbpml]

\* line 97: origin_pml = o - s * nbpml
origin_pml(origin, spacing, nbpml) ==
    [a \in 1..Len(origin) |-> origin[a] - spacing[a] * nbpml]

\* line 101: extent = spacing * (shape_pml - 1)
grid_extent(spacing, shp) == [a \in 1..Len(shp) |-> spacing[a] * (shp[a] - 1)]

\* lines 111-115, 127-131, 158-176: an optional parameter kept as it is
\* given, as a Function when it is an ndarray, or replaced by its default
OptionalField(p, default, grid_shape, so, nbpml) ==
    IF p.kind = "None" THEN PlainField(default)
    ELSE IF p.kind = "ndarray"
    THEN FunctionField(grid_shape, so,
                       initialize_function(NewFunction(grid_shape, so), p.arr, nbpml))
    ELSE PlainField(p.value)

\* the part of data_with_halo inside the halo: Function.data
FunctionData(f) ==
    SliceAxisAll(f.data_with_halo, f.space_order)

\* a Function created without space_order has the default order 1 (line 121)
DefaultSpaceOrder == 1

NoGrid  == [shape |-> <<0, 0>>, origin |-> <<0, 0>>, extent |-> <<0, 0>>,
            spacing |-> <<0, 0>>]
NoModel == [shape |-> <<0, 0>>, nbpml |-> 0, origin |-> <<0, 0>>,
            is_tti |-> FALSE, grid |-> NoGrid, m |-> PlainField(0),
            rho |-> PlainField(0), vp |-> None, damp |-> PlainField(0),
            scale |-> 0, dm |-> PlainField(0), epsilon |-> PlainField(0),
            delta |-> PlainField(0), theta |-> PlainField(0),
            phi |-> PlainField(0)]

\* a store that also resets the anisotropy scale
StoreVpResetScale(md, vp) == [md EXCEPT !.vp = vp, !.scale = 1]

\* line 251: self._vp = vp
StoreVp(md, vp) == [md EXCEPT !.vp = vp]

\* lines 246-257: the vp setter on the object md; [err, model]
\*   line 257 assigns the attribute `data` of self.m: a Python float has no
\*   attributes to assign, and Function.data is a property without a setter,
\*   so the scalar branch raises after self._vp was replaced.
VpSetter(md, vp) ==
    LET md1 == StoreVp(md, vp)
    IN  IF vp.kind = "ndarray"
        THEN IF md.m.kind = "Function"
             THEN [err   |-> "none",
                   model |-> [md1 EXCEPT !.m.data_with_halo =
                                initialize_function(
                                    NewFunction(md.m.grid_shape, md.m.space_order),
                                    SlownessArray(vp.arr), md.nbpml)]]
             ELSE [err |-> "AttributeError", model |-> md1]
        ELSE [err |-> "AttributeError", model |-> md1]

\* lines 133-146: scale and the epsilon field; epsilon = 1 + 2*eps
EpsilonField(p, grid_shape, so, nbpml) ==
    IF p.kind = "ndarray"
    THEN FunctionField(grid_shape, so,
             initialize_function(NewFunction(grid_shape, so),
                                 OnePlusTwice(p.arr), nbpml))
    ELSE IF p.kind = "scalar" THEN PlainField(1 + p.value)
    ELSE PlainField(1)

EpsilonScale(p, field) ==
    IF p.kind = "ndarray"
    THEN IF ArrMax(FunctionData(field)) > 0
         THEN Sqrt(ArrMax(FunctionData(field)))
         ELSE 1
    ELSE IF p.kind = "scalar" THEN Sqrt(field.value)
    ELSE 1

\* lines 148-156: delta = sqrt(1 + 2*delta)
DeltaField(p, grid_shape, so, nbpml) ==
    IF p.kind = "ndarray"
    THEN FunctionField(grid_shape, so,
             initialize_function(NewFunction(grid_shape, so),
                                 SqrtOnePlusTwice(p.arr), nbpml))
    ELSE IF p.kind = "scalar" THEN PlainField(Sqrt(1 + p.value))
    ELSE PlainField(1)

\* lines 88-176: Model.__init__; [err, model]
ModelInit(a) ==
    LET nbpml == a.nbpml
        shp   == shape_pml(a.shape, nbpml)
        grid  == Grid(grid_extent(a.spacing, shp), shp,
                      origin_pml(a.origin, a.spacing, nbpml))
        so    == a.space_order
        m0    == IF a.vp.kind = "ndarray"
                 THEN FunctionField(shp, so, Full(HaloShape(NewFunction(shp, so)), 0))
                 ELSE PlainField(Slowness(a.vp.value))
        eps   == EpsilonField(a.epsilon, shp, so, nbpml)
        self0 == [shape |-> a.shape, nbpml |-> nbpml, origin |-> a.origin,
                  is_tti |-> FALSE, grid |-> grid, m |-> m0,
                  rho |-> OptionalField(a.rho, 1, shp, so, nbpml),
                  vp |-> None, damp |-> PlainField(0), scale |-> 1,
                  dm |-> PlainField(0), epsilon |-> PlainField(0),
                  delta |-> PlainField(0), theta |-> PlainField(0),
                  phi |-> PlainField(0)]
        set   == VpSetter(self0, a.vp)
    IN  IF a.vp.kind = "scalar" /\ a.vp.value = 0
        THEN [err |-> "ZeroDivisionError", model |-> NoModel]   \* line 109
        ELSE IF set.err # "none"
        THEN [err |-> set.err, model |-> NoModel]               \* line 118
        ELSE [err   |-> "none",
              model |-> [set.model EXCEPT
                 !.damp = FunctionField(shp, DefaultSpaceOrder,
                              initialize_damp(NewFunction(shp, DefaultSpaceOrder),
                                              a.shape, nbpml, grid.spacing, TRUE)),
                 !.dm = OptionalField(a.dm, 1, shp, so, nbpml),
                 !.epsilon = eps,
                 !.scale = EpsilonScale(a.epsilon, eps),
                 !.delta = DeltaField(a.delta, shp, so, nbpml),
                 !.theta = OptionalField(a.theta, 0, shp, so, nbpml),
                 !.phi = OptionalField(a.phi, 0, shp, so, nbpml),
                 !.is_tti = (a.epsilon.kind # "None" \/ a.delta.kind # "None"
                             \/ a.theta.kind # "None" \/ a.phi.kind # "None")]]

\* line 232: the CFL coefficient in hundredths
Coeff(shape) == IF Len(shape) = 3 THEN 38 ELSE 42

\* the quotient rounded to the nearest thousandth
TruncateRounded(num, den) == PyRound(num, den)

\* line 234: int(1000 * dt), for a quotient num / den with den > 0
Truncate(num, den) == PyInt(num, den)

\* critical_dt returning 0 for a zero divisor
critical_dt_lenient(md) ==
    LET num == 10 * Coeff(md.shape) * SeqMin(md.grid.spacing)
        den == md.scale * NpMax(md.vp)
    IN  [op |-> "critical_dt", err |-> "none",
         value |-> IF den = 0 THEN 0 ELSE Truncate(num, den)]

\* lines 225-234: critical_dt in thousandths; [err, value]
\*   a zero divisor makes dt infinite and int(1000 * dt) raises
critical_dt(md) ==
    LET num == 10 * Coeff(md.shape) * SeqMin(md.grid.spacing)
        den == md.scale * NpMax(md.vp)
    IN  IF den = 0
        THEN [op |-> "critical_dt", err |-> "OverflowError", value |-> 0]
        ELSE [op |-> "critical_dt", err |-> "none", value |-> Truncate(num, den)]

(***************************************************************************)
(* Inputs of the Model operations.                                         *)
(***************************************************************************)
VelVals == {0, 2, 3}

\* an array with one value at index (0,..,0) and another everywhere else
Corner(shape, c, rest) ==
    [shape |-> shape,
     data  |-> [idx \in Indices(shape) |->
                  IF \A a \in 1..Len(shape) : idx[a] = 0 THEN c ELSE rest]]

VpParams(shape) ==
    {NdArray(Corner(shape, c, r)) : c \in VelVals, r \in VelVals}
    \cup {Scalar(v) : v \in VelVals}

\* shape, spacing, origin and space_order of a call
Geometries ==
    {[shape |-> <<2, 2>>, spacing |-> <<10, 10>>, origin |-> <<0, 0>>,
      space_order |-> 1],
     [shape |-> <<3, 2>>, spacing |-> <<3, 2>>, origin |-> <<5, -3>>,
      space_order |-> 2],
     [shape |-> <<2, 2, 2>>, spacing |-> <<2, 3, 5>>, origin |-> <<0, 4, -1>>,
      space_order |-> 1]}

\* the optional parameters rho, dm, epsilon, delta, theta, phi of a call
Optionals(shape) ==
    {[rho |-> Scalar(1), dm |-> None, epsilon |-> None, delta |-> None,
      theta |-> None, phi |-> None],
     [rho |-> Scalar(1), dm |-> None, epsilon |-> Scalar(8),
      delta |-> Scalar(8), theta |-> None, phi |-> None],
     [rho |-> Scalar(1), dm |-> None, epsilon |-> NdArray(Corner(shape, 8, 0)),
      delta |-> None, theta |-> Scalar(1), phi |-> None],
     [rho |-> Scalar(1), dm |-> None, epsilon |-> NdArray(Full(shape, -1)),
      delta |-> NdArray(Full(shape, 8)), theta |-> None, phi |-> Scalar(2)],
     [rho |-> Scalar(1), dm |-> None, epsilon |-> Scalar(-1), delta |-> None,
      theta |-> None, phi |-> None],
     [rho |-> NdArray(Corner(shape, 2, 1)), dm |-> NdArray(Full(shape, 4)),
      epsilon |-> None, delta |-> None, theta |-> NdArray(Full(shape, 1)),
      phi |-> NdArray(Full(shape, 2))]}

ModelArgs ==
    {[origin |-> geo.origin, spacing |-> geo.spacing, shape |-> geo.shape,
      vp |-> v, rho |-> opt.rho, nbpml |-> n, dm |-> opt.dm,
      epsilon |-> opt.epsilon, delta |-> opt.delta, theta |-> opt.theta,
      phi |-> opt.phi, space_order |-> geo.space_order] :
        geo \in Geometries, n \in 0..MaxNbpml,
        v \in UNION {VpParams(gg.shape) : gg \in Geometries},
        opt \in UNION {Optionals(gg.shape) : gg \in Geometries}}

ValidModelArgs ==
    {a \in ModelArgs :
        /\ a.vp \in VpParams(a.shape)
        /\ [rho |-> a.rho, dm |-> a.dm, epsilon |-> a.epsilon,
            delta |-> a.delta, theta |-> a.theta, phi |-> a.phi]
              \in Optionals(a.shape)}

NoRet == [op |-> "none", err |-> "none", value |-> 0, vp |-> None]

(***************************************************************************)
(* Model operations as actions.                                            *)
(*   mdPc = "new"     no Model has been constructed                        *)
(*          "live"    the constructor returned the object `model`          *)
(*          "failed"  the constructor raised                               *)
(*   ret is the outcome of the most recent call and the velocity passed.   *)
(***************************************************************************)
Construct ==
    /\ mdPc = "new"
    /\ \E a \in ValidModelArgs :
         LET r == ModelInit(a)
         IN  /\ model' = r.model
             /\ ret' = [op |-> "__init__", err |-> r.err, value |-> 0,
                        vp |-> a.vp]
             /\ mdPc' = IF r.err = "none" THEN "live" ELSE "failed"
    /\ UNCHANGED <<apVars, dpVars>>

SetVp ==
    /\ mdPc = "live"
    /\ \E v \in VpParams(model.shape) :
         LET r == VpSetter(model, v)
         IN  /\ model' = r.model
             /\ ret' = [op |-> "vp.setter", err |-> r.err, value |-> 0,
                        vp |-> v]
    /\ UNCHANGED <<mdPc, apVars, dpVars>>

CriticalDt ==
    /\ mdPc = "live"
    /\ ret' = [critical_dt(model) EXCEPT !.op = "critical_dt"] @@ [vp |-> None]
    /\ UNCHANGED <<mdPc, model, apVars, dpVars>>

(***************************************************************************)
(* Specifications: one per component, the other components idle.           *)
(***************************************************************************)
\* a worker is about to restrict a model or to embed a gradient
ApInit ==
    /\ sub = NoSub
    /\ g = NoG
    /\ \/ /\ apPc = "args"
          /\ args \in RestrictArgs2 \cup RestrictArgs3 \cup {ExampleArgs}
          /\ eargs = NoEArgs
       \/ /\ apPc = "eargs"
          /\ args = NoArgs
          /\ eargs \in ExtentArgs2 \cup ExtentArgs3
    /\ mdPc = "idle" /\ model = NoModel /\ ret = NoRet
    /\ dpPc = "idle" /\ dargs = NoDArgs /\ damp = NoDamp

\* no Model has been constructed
MdInit ==
    /\ mdPc = "new" /\ model = NoModel /\ ret = NoRet
    /\ apPc = "idle" /\ args = NoArgs /\ sub = NoSub
    /\ eargs = NoEArgs /\ g = NoG
    /\ dpPc = "idle" /\ dargs = NoDArgs /\ damp = NoDamp

\* a damping Function has been created and is about to be initialised
DpInit ==
    /\ dpPc = "args" /\ dargs \in DampArgs /\ damp = NoDamp
    /\ apPc = "idle" /\ args = NoArgs /\ sub = NoSub
    /\ eargs = NoEArgs /\ g = NoG
    /\ mdPc = "idle" /\ model = NoModel /\ ret = NoRet

ApNext == Restrict \/ RoundTrip \/ Embed
MdNext == Construct \/ SetVp \/ CriticalDt
DpNext == InitializeDamp

SpecAperture == ApInit /\ [][ApNext]_vars
SpecModel    == MdInit /\ [][MdNext]_vars
SpecDamp     == DpInit /\ [][DpNext]_vars

(***************************************************************************)
(* Properties of the aperture operations (SpecAperture).                   *)
(***************************************************************************)
Restricted == apPc \in {"restricted", "extended"} /\ sub.err = "none"

\* the axes restrict_model_to_receiver_grid restricts: x, and y in 3-D
RestrictedAxes(ndim) == 1..(ndim - 1)

CoordMin(a) == IF a = 1 THEN ScanMin(args.sx, args.gx) ELSE ScanMin(args.sy, args.gy)
CoordMax(a) == IF a = 1 THEN ScanMax(args.sx, args.gx) ELSE ScanMax(args.sy, args.gy)
DomainTop(a) == args.origin[a] + (args.m.shape[a] - 1) * args.spacing[a]
BoundMin(a) == IF a = 1 THEN sub.min_x ELSE sub.min_y
BoundMax(a) == IF a = 1 THEN sub.max_x ELSE sub.max_y
IndexMin(a) == IF a = 1 THEN sub.nx_min ELSE sub.ny_min
IndexMax(a) == IF a = 1 THEN sub.nx_max ELSE sub.ny_max

\* the buffered coordinates of every restricted axis lie inside the domain
ApertureInside ==
    \A a \in RestrictedAxes(Len(args.m.shape)) :
        /\ CoordMin(a) - args.buffer_size >= args.origin[a]
        /\ CoordMax(a) + args.buffer_size <= DomainTop(a)

\* every source and receiver coordinate lies inside the domain
CoordsInDomain ==
    \A a \in RestrictedAxes(Len(args.m.shape)) :
        CoordMin(a) >= args.origin[a] /\ CoordMax(a) <= DomainTop(a)

\* idx lies in the index range restrict sliced on every restricted axis
InAperture(idx) ==
    \A a \in RestrictedAxes(Len(args.m.shape)) :
        IndexMin(a) <= idx[a] /\ idx[a] <= IndexMax(a)

\* C1: the round trip restrict -> extent_gradient of an aperture inside the
\* domain gives an array of the full shape that equals m inside the
\* aperture index range and is zero everywhere else.
C1_RoundTripClaim ==
    (apPc = "extended" /\ ApertureInside) =>
        /\ g.err = "none"
        /\ g.g.shape = args.m.shape
        /\ \A idx \in Indices(args.m.shape) :
             g.g.data[idx] = IF InAperture(idx) THEN args.m.data[idx] ELSE 0

\* C2: for coordinates inside the domain, on each restricted axis the
\* interval from the returned origin to origin + (sub_shape-1)*spacing
\* contains the buffered coordinates or reaches the domain bound.
C2_ContainmentClaim ==
    (Restricted /\ CoordsInDomain) =>
        \A a \in RestrictedAxes(Len(args.m.shape)) :
            LET lo == sub.origin[a]
                hi == sub.origin[a] + (sub.shape[a] - 1) * args.spacing[a]
            IN  /\ lo <= CoordMin(a) - args.buffer_size \/ lo = args.origin[a]
                /\ hi >= CoordMax(a) + args.buffer_size \/ hi = DomainTop(a)

\* C3: the physical bounds are min - buffer and max + buffer, the lower one
\* raised to origin when it is below, the upper one lowered to
\* origin + (shape-1)*spacing when it is above; the example gives [0, 550].
C3_ClipTheorem ==
    Restricted =>
        /\ \A a \in RestrictedAxes(Len(args.m.shape)) :
             LET lo == CoordMin(a) - args.buffer_size
                 hi == CoordMax(a) + args.buffer_size
             IN  /\ BoundMin(a) = (IF lo < args.origin[a] THEN args.origin[a] ELSE lo)
                 /\ BoundMax(a) = (IF hi > DomainTop(a) THEN DomainTop(a) ELSE hi)
                 /\ BoundMin(a) >= args.origin[a]
                 /\ BoundMax(a) <= DomainTop(a)
        /\ args = ExampleArgs => sub.min_x = 0 /\ sub.max_x = 550

C3_Witness ==
    /\ apPc = "restricted" /\ sub.err = "none"
    /\ args = ExampleArgs
    /\ CoordMin(1) - args.buffer_size < args.origin[1]
    /\ sub.min_x = 0 /\ sub.max_x = 550

\* the offsets of a call of extent_gradient, by the rounding Q of the quotient
EmbedLeft(a, Q(_, _)) ==
    Q(eargs.origin_sub[a] - eargs.origin_full[a], eargs.spacing[a])
EmbedRight(a, Q(_, _)) ==
    eargs.shape_full[a] - eargs.shape_sub[a] - EmbedLeft(a, Q)

\* g holds the argument array at the offsets EmbedLeft and zero elsewhere
PlacedAt(Q(_, _)) ==
    LET ndim == Len(eargs.shape_full)
        from(idx) == [a \in 1..ndim |->
                        IF a < ndim THEN idx[a] - EmbedLeft(a, Q) ELSE idx[a]]
    IN  /\ g.err = "none"
        /\ g.g.shape = eargs.shape_full
        /\ \A idx \in Indices(eargs.shape_full) :
             g.g.data[idx] =
                IF \A a \in RestrictedAxes(ndim) :
                      /\ EmbedLeft(a, Q) <= idx[a]
                      /\ idx[a] < EmbedLeft(a, Q) + eargs.shape_sub[a]
                THEN eargs.g.data[from(idx)]
                ELSE 0

OffsetsFit(Q(_, _)) ==
    \A a \in RestrictedAxes(Len(eargs.shape_full)) :
        EmbedLeft(a, Q) >= 0 /\ EmbedRight(a, Q) >= 0

\* C4 as claimed: with left_offset = round((origin_sub - origin_full)/spacing)
\* and right_offset = shape_full - shape_sub - left_offset, the result has
\* shape shape_full, holds g at [left_offset, left_offset + shape_sub) of
\* each restricted axis and is zero elsewhere.
C4_RoundPlacementClaim ==
    (apPc = "embedded" /\ OffsetsFit(PyRound)) => PlacedAt(PyRound)

\* C4 as amended: the left offset is int((origin_sub - origin_full)/spacing),
\* the quotient truncated toward zero; when both offsets of every restricted
\* axis are non-negative the result has shape shape_full, holds g at
\* [left_offset, left_offset + shape_sub) and is zero elsewhere, the depth
\* axis unpadded; a negative offset makes the call fail.
C4_TruncPlacementTheorem ==
    apPc = "embedded" =>
        IF OffsetsFit(PyInt) THEN PlacedAt(PyInt) ELSE g.err # "none"

C4_Witness ==
    /\ apPc = "embedded" /\ g.err = "none"
    /\ Len(eargs.shape_full) = 3
    /\ \A a \in 1..2 :
         /\ EmbedLeft(a, PyInt) > 0 /\ EmbedRight(a, PyInt) > 0
         /\ EmbedLeft(a, PyInt) # EmbedLeft(a, PyRound)
    /\ PlacedAt(PyInt)

IndexCollapsed(a) == IndexMax(a) < IndexMin(a)

\* C9 as claimed: when the index range of a restricted axis collapses
\* (upper index bound below the lower one) the call fails.
C9_CollapseFailsClaim ==
    (apPc = "restricted"
       /\ \E a \in RestrictedAxes(Len(args.m.shape)) : IndexCollapsed(a))
    => sub.err # "none"

\* C9 as amended: a collapsed index range is no error.  The call returns
\* the slice m[n_min : n_max+1]; for n_min >= 0 and n_max >= -1 that slice
\* is empty, so the sub-array has shape 0 on the axis, and its origin is
\* n_min*spacing.  The only failure is the 3-axis call without y coordinates.
C9_CollapseReturnsTheorem ==
    apPc = "restricted" =>
        /\ sub.err = "none" <=>
              (Len(args.m.shape) = 2 \/ (args.sy # NoCoords /\ args.gy # NoCoords))
        /\ sub.err = "none" =>
              \A a \in RestrictedAxes(Len(args.m.shape)) :
                  (IndexCollapsed(a) /\ IndexMin(a) >= 0 /\ IndexMax(a) >= -1)
                  => /\ sub.shape[a] = 0
                     /\ sub.m.shape[a] = 0
                     /\ sub.origin[a] = IndexMin(a) * args.spacing[a]

C9_Witness ==
    /\ apPc = "restricted" /\ sub.err = "none"
    /\ IndexCollapsed(1) /\ sub.nx_min > 0 /\ sub.nx_max >= 0
    /\ sub.shape[1] = 0

(***************************************************************************)
(* Properties of the Model (SpecModel).                                    *)
(***************************************************************************)
\* C5: in every state of a constructed Model, also after velocity updates,
\* grid.shape[axis] = shape[axis] + 2*nbpml and the origin of the extended
\* grid is origin[axis] - nbpml*spacing[axis] on every axis.
C5_GridShapeTheorem ==
    mdPc = "live" =>
        /\ Len(model.grid.shape) = Len(model.shape)
        /\ \A a \in 1..Len(model.shape) :
             /\ model.grid.shape[a] = model.shape[a] + 2 * model.nbpml
             /\ model.grid.origin[a] =
                   model.origin[a] - model.nbpml * model.grid.spacing[a]

C5_Witness ==
    /\ mdPc = "live"
    /\ ret.op = "vp.setter" /\ ret.err = "none"
    /\ model.nbpml = MaxNbpml
    /\ model.shape = <<3, 2>>
    /\ model.grid.shape = <<3 + 2 * MaxNbpml, 2 + 2 * MaxNbpml>>
    /\ model.grid.origin = <<5 - 3 * MaxNbpml, -3 - 2 * MaxNbpml>>

\* the quotient critical_dt truncates is DtNum / DtDen, in thousandths
DtNum == 10 * (IF Len(model.shape) = 3 THEN 38 ELSE 42)
            * SeqMin(model.grid.spacing)
DtDen == model.scale * NpMax(model.vp)

\* C6: a returned critical_dt is coeff * min(spacing) / (scale * max(vp))
\* truncated down to 3 decimal places, with coeff 0.38 for 3 axes and 0.42
\* for 2 axes, so it never exceeds that quotient.
C6_TruncationTheorem ==
    (mdPc = "live" /\ ret.op = "critical_dt" /\ ret.err = "none") =>
        /\ ret.value * DtDen <= DtNum
        /\ (ret.value + 1) * DtDen > DtNum
        /\ (model.vp = NdArray(Full(<<2, 2>>, 2)) /\ model.scale = 1
              /\ model.grid.spacing = <<10, 10>>) => ret.value = 2100

\* the quotient is not a whole number of thousandths and was cut down
C6_Witness ==
    /\ mdPc = "live" /\ ret.op = "critical_dt" /\ ret.err = "none"
    /\ Len(model.shape) = 3
    /\ ret.value * DtDen < DtNum
    /\ 2 * (DtNum - ret.value * DtDen) > DtDen

\* C7: constructing a Model with a scalar velocity succeeds and leaves the
\* slowness as the scalar 1/velocity^2, no field materialized.
C7_ScalarVelocityClaim ==
    (ret.op = "__init__" /\ ret.vp.kind = "scalar" /\ ret.vp.value # 0) =>
        /\ ret.err = "none"
        /\ mdPc = "live"
        /\ model.m.kind = "scalar"
        /\ model.m.value = Slowness(ret.vp.value)

\* C10 as claimed: no Model whose max(velocity) is zero is ever reachable.
C10_ZeroVelocityRejectedClaim ==
    mdPc = "live" => NpMax(model.vp) # 0

\* C10 as amended: a velocity array whose maximum is zero is accepted by the
\* constructor and by the velocity update, so such a Model is reachable; the
\* failure comes when critical_dt is evaluated on it: critical_dt raises
\* whenever its divisor scale * max(velocity) is zero and returns a value
\* only for a non-zero divisor.
C10_ZeroVelocityTheorem ==
    /\ (ret.op \in {"__init__", "vp.setter"} /\ ret.vp.kind = "ndarray")
          => (ret.err = "none" /\ mdPc = "live" /\ model.vp = ret.vp)
    /\ (mdPc = "live" /\ ret.op = "critical_dt") =>
          (ret.err # "none" <=> DtDen = 0)

C10_Witness ==
    /\ mdPc = "live" /\ ret.op = "critical_dt"
    /\ model.vp.kind = "ndarray" /\ NpMax(model.vp) = 0
    /\ model.scale > 0
    /\ ret.err = "OverflowError"

(***************************************************************************)
(* Properties of the damping (SpecDamp).                                   *)
(***************************************************************************)
\* what layer j of the first axis added to the field: the point at distance
\* j from the near edge of the first axis, inside the interior of the others
LayerValue(j) ==
    LET so  == dargs.space_order
        mid == so + dargs.nbpml
        idx == [a \in 1..Len(dargs.phy_shape) |-> IF a = 1 THEN so + j ELSE mid]
    IN  damp.data[idx] - (IF dargs.mask THEN FpOne ELSE 0)

\* C8 as claimed: for nbpml > 0 the magnitude of the layer value at the
\* innermost boundary layer is strictly larger than at the outermost one.
C8_InnerLargerClaim ==
    (dpPc = "done" /\ dargs.nbpml > 0) =>
        Abs(LayerValue(dargs.nbpml - 1)) > Abs(LayerValue(0))

\* C8 as amended: the taper grows toward the edge: for nbpml > 1 the
\* magnitude of the layer value at the outermost boundary layer (j = 0) is
\* strictly larger than at the innermost one (j = nbpml - 1); for nbpml = 1
\* the two are the same layer.
C8_OuterLargerTheorem ==
    (dpPc = "done" /\ dargs.nbpml > 1) =>
        Abs(LayerValue(0)) > Abs(LayerValue(dargs.nbpml - 1))

C8_Witness ==
    /\ dpPc = "done" /\ dargs.nbpml = MaxDampNbpml /\ dargs.mask
    /\ LayerValue(0) < LayerValue(dargs.nbpml - 1)
    /\ LayerValue(dargs.nbpml - 1) < 0

\* the part of the damping field inside the halo: the extended grid
DampDomain == SliceAxisAll(damp, dargs.space_order)

\* the distance of position p from the nearer edge of an axis of length n
EdgeDistance(p, n) == Min(p, n - 1 - p)

RECURSIVE MirroredSum(_, _, _)
\* one contribution val(d)/spacing for every axis a..ndim on which the
\* point lies at a distance d < nbpml from the nearer edge
MirroredSum(idx, shape, a) ==
    IF a > Len(shape) THEN 0
    ELSE (IF EdgeDistance(idx[a], shape[a]) < dargs.nbpml
          THEN FpDiv(DampVal(dargs.nbpml, EdgeDistance(idx[a], shape[a]),
                             dargs.mask),
                     dargs.spacing[a])
          ELSE 0)
         + MirroredSum(idx, shape, a + 1)

\* C11: for every axis of extended length n and every layer j < nbpml the
\* contribution val(j)/spacing is added at index j and at the mirrored
\* index n-1-j, so the field is symmetric under reflection of each axis,
\* only the nbpml outermost indices of each side are modified and interior
\* points keep their initial value (0, or 1 for a mask).
C11_MirroredLayersClaim ==
    dpPc = "done" =>
        \A idx \in Indices(DampDomain.shape) :
            DampDomain.data[idx] =
                (IF dargs.mask THEN FpOne ELSE 0)
                + MirroredSum(idx, DampDomain.shape, 1)

\* the physical point whose value np.pad(..., 'edge') puts at position idx
\* of the slowness field, whose layout is halo + nbpml + physical + nbpml +
\* halo on every axis
NearestPhysical(idx) ==
    [a \in 1..Len(idx) |->
       Max(0, Min(model.shape[a] - 1,
                  idx[a] - (model.nbpml + model.m.space_order)))]

\* C12: while the velocity is an array, the slowness field m is 1/vp^2 of
\* the velocity stored most recently at the points of the physical domain,
\* and every boundary-layer and halo point holds the value of the nearest
\* physical point (edge replication), after construction and after every
\* array update.
C12_SlownessTracksTheorem ==
    (mdPc = "live" /\ model.vp.kind = "ndarray") =>
        /\ model.m.kind = "Function"
        /\ model.m.data_with_halo.shape =
               [a \in 1..Len(model.shape) |->
                  model.shape[a] + 2 * model.nbpml + 2 * model.m.space_order]
        /\ \A idx \in Indices(model.m.data_with_halo.shape) :
               model.m.data_with_halo.data[idx] =
                   Slowness(model.vp.arr.data[NearestPhysical(idx)])

\* an array update on a model with a boundary layer stored a velocity that
\* is not constant and differs from the slowness it replaced
C12_Witness ==
    /\ mdPc = "live"
    /\ ret.op = "vp.setter"
    /\ ret.err = "none"
    /\ model.vp = ret.vp
    /\ model.nbpml > 0
    /\ \E i1, i2 \in Indices(model.shape) :
           /\ model.vp.arr.data[i1] # model.vp.arr.data[i2]
           /\ model.vp.arr.data[i1] # 0
           /\ model.vp.arr.data[i2] # 0

\* C13: a velocity update changes only the stored velocity and the slowness
\* m; the grid (shape, origin, spacing), the physical shape and origin,
\* nbpml, the damping field, the density, the perturbation, the anisotropy
\* fields, the scale and the anisotropy flag are left as they were.
C13_FrameTheorem ==
    [][(mdPc = "live" /\ mdPc' = "live") =>
          /\ model'.grid = model.grid
          /\ model'.shape = model.shape
          /\ model'.origin = model.origin
          /\ model'.nbpml = model.nbpml
          /\ model'.damp = model.damp
          /\ model'.rho = model.rho
          /\ model'.dm = model.dm
          /\ model'.epsilon = model.epsilon
          /\ model'.delta = model.delta
          /\ model'.theta = model.theta
          /\ model'.phi = model.phi
          /\ model'.scale = model.scale
          /\ model'.is_tti = model.is_tti]_vars

\* an array update was applied to an anisotropic model with a boundary
\* layer, an epsilon field and a scale other than 1
C13_Witness ==
    /\ mdPc = "live"
    /\ ret.op = "vp.setter"
    /\ ret.err = "none"
    /\ model.is_tti
    /\ model.scale > 1
    /\ model.nbpml > 0
    /\ model.epsilon.kind = "Function"
    /\ model.damp.kind = "Function"

====
